---------------------------- MODULE Spec2Model ----------------------------
(***************************************************************************)
(* A model of the F1 data pull scripts of scripts/f1:                      *)
(*   pull_f1.py                   (API-Sports, no retries)                 *)
(*   pull_f1_ergast_legacy.py     (Ergast/Jolpica, retrying fetch_json)    *)
(*   pull_f1_ergast_legacy.pypull_f1_ergast_legacy.py (first Ergast pull)  *)
(*                                                                         *)
(* SpecFetch runs one call of the retrying fetch_json, one loop iteration  *)
(* per step, against every sequence of server responses.  Time is counted  *)
(* in whole units; a float of the source is an integer number of units.    *)
(***************************************************************************)
EXTENDS Integers, Sequences, FiniteSets, TLC

VARIABLES
    MAX_RETRIES,            \* ERGAST_MAX_RETRIES, read once at import
    BACKOFF_BASE_SECONDS,   \* ERGAST_BACKOFF_BASE_SECONDS, read once at import
    attempt,                \* the loop variable of fetch_json
    fstate,                 \* "loop", "returned" or "raised"
    requests,               \* SESSION.get calls issued by this call
    resp,                   \* the response the last iteration handled
    prev,                   \* the response the iteration before it handled
    wait,                   \* the wait the last iteration chose (None: none)
    didSleep,               \* the last iteration called time.sleep
    slept,                  \* for how long it slept (0 when it did not)
    prevSlept,              \* the same of the iteration before
    onlyPlain,              \* every response so far: 429/5xx, no Retry-After
    clock,                  \* time elapsed since the call started
    reqAt,                  \* clock at the last request
    prevAt,                 \* clock at the request before it
    retval,                 \* the value fetch_json returned
    first2xx,               \* the first 2xx response this call received
    last_err,               \* last_err of fetch_json
    env,                    \* the script run and its os.getenv configuration
    pc,                     \* where main is
    exit_code,              \* the process's exit status once pc = "exited"
    files,                  \* the output tree: path -> JSON value written
    payload,                \* the payload main holds between fetch and write
    job,                    \* index of the current entry of the job list
    year,                   \* the loop variable of the Ergast mains
    races,                  \* `races` of main: the rows (pull_f1) or payload
    ids,                    \* driver_ids / rounds: the fan-out's identifiers
    k,                      \* index of the fan-out loop in ids / races
    out,                    \* `out` of fetch_drivers_by_ids
    phase,                  \* race_results phase: "", "skipped", "ran"
    filesBefore,            \* the output tree when the last fetch was issued
    log                     \* what the run did, in order: fetches, warnings, writes

fetchVars == <<MAX_RETRIES, BACKOFF_BASE_SECONDS, attempt, fstate, requests,
               resp, prev, wait, didSleep, slept, prevSlept, onlyPlain, clock,
               reqAt, prevAt, retval, first2xx, last_err>>

runVars == <<env, pc, exit_code, files, payload, job, year, races, ids, k, out,
             phase, filesBefore, log>>

vars == <<fetchVars, runVars>>

---------------------------------------------------------------------------
(* Bounds of the model.                                                    *)

MaxRetriesBound == 3

RetryChoices == 0..MaxRetriesBound

\* Values of ERGAST_BACKOFF_BASE_SECONDS; float() accepts zero and negatives.
BackoffChoices == {-1, 0, 1, 3}

---------------------------------------------------------------------------
(* Optional values (Python's None).                                        *)

None == [some |-> FALSE, v |-> 0]

Some(x) == [some |-> TRUE, v |-> x]


---------------------------------------------------------------------------
(* Responses.  net_ok = FALSE is SESSION.get raising (timeout, connection  *)
(* error); retry_after is the Retry-After header, absent or a text.        *)

NoHeader == [present |-> FALSE, text |-> ""]

Header(t) == [present |-> TRUE, text |-> t]

RetryAfterHeaders ==
    {NoHeader, Header(""), Header("soon"), Header("-1"), Header("0"),
     Header("2"), Header("5")}

TextBodies == {"<html>Bad Gateway</html>"}

Response(ok, code, ra, body) ==
    [net_ok |-> ok, status_code |-> code, retry_after |-> ra, body |-> body]

NoResponse == Response(FALSE, 0, NoHeader, "")

NetworkError == Response(FALSE, -1, NoHeader, "")

Is2xx(r) == r.net_ok /\ 200 <= r.status_code /\ r.status_code < 300

Is5xx(r) == r.net_ok /\ 500 <= r.status_code /\ r.status_code < 600

Is429(r) == r.net_ok /\ r.status_code = 429

\* float(text): the texts of RetryAfterHeaders Python's float() accepts.
FloatTexts == {"-1", "0", "2", "5"}

float(text) ==
    CASE text = "-1" -> -1
      [] text = "0" -> 0
      [] text = "2" -> 2
      [] text = "5" -> 5

---------------------------------------------------------------------------
(* JSON values.  A body is the text of an HTTP response; json(body) is     *)
(* what resp.json() makes of it.                                           *)
(*                                                                         *)
(* An API-Sports payload is [get, errors, response]: errors is a mapping   *)
(* (dict = TRUE) or a list, with its items in order; response is a list    *)
(* of rows or another value (list = FALSE); a row is a mapping with        *)
(* optional integers id, race, race_id and an optional mapping driver, or  *)
(* another value (dict = FALSE).                                           *)
(* An Ergast payload is [MRData]: has_races tells whether                  *)
(* MRData.RaceTable.Races exists; a row carries an optional text round.    *)

NoDriver == [dict |-> FALSE, id |-> None]

Driver(id) == [dict |-> TRUE, id |-> id]

Row(id, race, race_id, driver) ==
    [dict |-> TRUE, id |-> id, race |-> race, race_id |-> race_id, driver |-> driver]

NonDictRow ==
    [dict |-> FALSE, id |-> None, race |-> None, race_id |-> None, driver |-> NoDriver]

IdRow(n) == Row(Some(n), None, None, NoDriver)

DriverRow(n) == Row(None, None, None, Driver(Some(n)))

NoErrors == [dict |-> FALSE, items |-> <<>>]

ErrorMap(key, msg) == [dict |-> TRUE, items |-> <<[key |-> key, msg |-> msg]>>]

List(rows) == [list |-> TRUE, rows |-> rows]

NotAList == [list |-> FALSE, rows |-> <<>>]

ApiPayload(get, errors, response) ==
    [get |-> get, errors |-> errors, response |-> response]

NoRound == [some |-> FALSE, text |-> ""]

Round(t) == [dict |-> TRUE, round |-> [some |-> TRUE, text |-> t]]

RaceWithoutRound == [dict |-> TRUE, round |-> NoRound]

NonDictRace == [dict |-> FALSE, round |-> NoRound]

NoRaceTable == [MRData |-> [has_races |-> FALSE, Races |-> <<>>]]

RaceTable(rows) == [MRData |-> [has_races |-> TRUE, Races |-> rows]]

NoPayload == [some |-> FALSE, v |-> NoRaceTable]

Returned(value) == [some |-> TRUE, v |-> value]

\* Ergast bodies.
E_Standings == "{\"MRData\": {\"StandingsTable\": {}}}"
E_Round1 == "{\"MRData\": {\"RaceTable\": {\"Races\": [{\"round\": \"1\"}]}}}"
E_Rounds212 ==
    "{\"MRData\": {\"RaceTable\": {\"Races\": [{\"round\": \"2\"}, {\"round\": \"1\"}, {\"round\": \"2\"}]}}}"
E_RoundsOdd ==
    "{\"MRData\": {\"RaceTable\": {\"Races\": [{\"round\": \"x\"}, {\"raceName\": \"Monaco\"}, {\"round\": \"1\"}]}}}"
E_NonDictRace ==
    "{\"MRData\": {\"RaceTable\": {\"Races\": [\"Monaco\", {\"round\": \"1\"}]}}}"

\* API-Sports bodies.
A_Empty == "{\"errors\": [], \"response\": []}"
A_Error == "{\"errors\": {\"token\": \"Error/Missing application key.\"}, \"response\": []}"
A_Message == "{\"errors\": [], \"response\": {\"message\": \"none\"}}"
A_Races212 ==
    "{\"get\": \"races\", \"errors\": [], \"response\": [{\"id\": 2}, {\"id\": 1}, {\"id\": 2}]}"
A_RacesOdd ==
    "{\"get\": \"races\", \"errors\": [], \"response\": [{\"race\": 3}, {\"name\": \"Monaco\"}]}"
A_NonDictRace == "{\"get\": \"races\", \"errors\": [], \"response\": [\"Monaco\"]}"
A_Rankings212 ==
    "{\"get\": \"rankings/drivers\", \"errors\": [], \"response\": [{\"driver\": {\"id\": 2}}, {\"driver\": {\"id\": 1}}, {\"driver\": {\"id\": 2}}]}"
A_RankingsOdd ==
    "{\"get\": \"rankings/drivers\", \"errors\": [], \"response\": [\"x\", {\"driver\": null}, {\"driver\": {\"id\": 0}}, {\"driver\": {\"id\": 1}}]}"
A_Driver1 == "{\"get\": \"drivers\", \"errors\": [], \"response\": [{\"id\": 1}]}"
A_Driver2 == "{\"get\": \"drivers\", \"errors\": [], \"response\": [{\"id\": 2}]}"
A_DriverError ==
    "{\"get\": \"drivers\", \"errors\": {\"id\": \"The Id field must contain an integer.\"}, \"response\": []}"

\* resp.json(): [ok, value]; ok = FALSE is the decoder raising.
Parsed(value) == [ok |-> TRUE, value |-> value]

json(body) ==
    CASE body = E_Standings -> Parsed(NoRaceTable)
      [] body = E_Round1 -> Parsed(RaceTable(<<Round("1")>>))
      [] body = E_Rounds212 -> Parsed(RaceTable(<<Round("2"), Round("1"), Round("2")>>))
      [] body = E_RoundsOdd ->
            Parsed(RaceTable(<<Round("x"), RaceWithoutRound, Round("1")>>))
      [] body = E_NonDictRace -> Parsed(RaceTable(<<NonDictRace, Round("1")>>))
      [] body = A_Empty -> Parsed(ApiPayload("", NoErrors, List(<<>>)))
      [] body = A_Error ->
            Parsed(ApiPayload("", ErrorMap("token", "Error/Missing application key."),
                              List(<<>>)))
      [] body = A_Message -> Parsed(ApiPayload("", NoErrors, NotAList))
      [] body = A_Races212 ->
            Parsed(ApiPayload("races", NoErrors, List(<<IdRow(2), IdRow(1), IdRow(2)>>)))
      [] body = A_RacesOdd ->
            Parsed(ApiPayload("races", NoErrors,
                              List(<<Row(None, Some(3), None, NoDriver),
                                     Row(None, None, None, NoDriver)>>)))
      [] body = A_NonDictRace -> Parsed(ApiPayload("races", NoErrors, List(<<NonDictRow>>)))
      [] body = A_Rankings212 ->
            Parsed(ApiPayload("rankings/drivers", NoErrors,
                              List(<<DriverRow(2), DriverRow(1), DriverRow(2)>>)))
      [] body = A_RankingsOdd ->
            Parsed(ApiPayload("rankings/drivers", NoErrors,
                              List(<<NonDictRow, Row(None, None, None, NoDriver),
                                     DriverRow(0), DriverRow(1)>>)))
      [] body = A_Driver1 -> Parsed(ApiPayload("drivers", NoErrors, List(<<IdRow(1)>>)))
      [] body = A_Driver2 -> Parsed(ApiPayload("drivers", NoErrors, List(<<IdRow(2)>>)))
      [] body = A_DriverError ->
            Parsed(ApiPayload("drivers",
                              ErrorMap("id", "The Id field must contain an integer."),
                              List(<<>>)))
      [] OTHER -> [ok |-> FALSE, value |-> NoRaceTable]

\* The responses a server gives one request of SpecFetch.
Responses ==
    {NetworkError}
    \cup {Response(TRUE, 200, NoHeader, b) : b \in {E_Standings, E_Round1} \cup TextBodies}
    \cup {Response(TRUE, 404, NoHeader, "Not Found")}
    \cup {Response(TRUE, c, h, "busy") : c \in {429, 503}, h \in RetryAfterHeaders}

---------------------------------------------------------------------------
(* pull_f1_ergast_legacy.py: safe_sleep, _retry_after_seconds, fetch_json  *)

RECURSIVE Pow2(_)
Pow2(n) == IF n <= 0 THEN 1 ELSE 2 * Pow2(n - 1)

\* The time safe_sleep(seconds) sleeps: time.sleep is called only for seconds > 0.
safe_sleep(seconds) == IF seconds > 0 THEN seconds ELSE 0

IgnoreRetryAfter(r) == None

_retry_after_seconds(r) ==
    IF ~r.retry_after.present \/ r.retry_after.text = "" THEN None
    ELSE IF r.retry_after.text \in FloatTexts THEN Some(float(r.retry_after.text))
    ELSE None

LinearBackoff(att) == BACKOFF_BASE_SECONDS

\* BACKOFF_BASE_SECONDS * (2 ** attempt)
Backoff(att) == BACKOFF_BASE_SECONDS * Pow2(att)

\* Lines 74-76: the wait of the 429 branch.
RateLimitWait(r, att) ==
    IF _retry_after_seconds(r).some THEN _retry_after_seconds(r).v ELSE Backoff(att)

\* What one iteration of the loop does: outcome "return" (return resp.json()),
\* "continue" (next iteration, after the sleep) or "break" (leave the loop);
\* wait is the wait it chose, err what it stored in last_err.
Step(outcome, value, w, err) ==
    [outcome |-> outcome, value |-> value, wait |-> w, err |-> err]

\* Lines 95-101: the except clause.
OnException(err, att) ==
    IF att >= MAX_RETRIES THEN Step("break", NoPayload, None, err)
    ELSE Step("continue", NoPayload, Some(Backoff(att)), err)

\* Lines 65-93: the try block on the response r, at loop index att.
Iteration(r, att) ==
    IF ~r.net_ok THEN OnException("ConnectionError", att)
    ELSE IF Is2xx(r) THEN
        IF json(r.body).ok
        THEN Step("return", Returned(json(r.body).value), None, last_err)
        ELSE OnException("JSONDecodeError", att)
    ELSE IF r.status_code = 429 THEN
        Step("continue", NoPayload, Some(RateLimitWait(r, att)), last_err)
    ELSE IF Is5xx(r) THEN
        Step("continue", NoPayload, Some(Backoff(att)), last_err)
    ELSE OnException("RuntimeError", att)

SleepOf(step) == IF step.wait.some THEN safe_sleep(step.wait.v) ELSE 0

\* One iteration of `for attempt in range(0, MAX_RETRIES + 1)`; the iteration
\* that ends the loop without a return also runs the final raise of line 103.
fetch_json_iteration ==
    /\ fstate = "loop"
    /\ attempt <= MAX_RETRIES
    /\ \E r \in Responses :
        LET step == Iteration(r, attempt) IN
        /\ requests' = requests + 1
        /\ resp' = r
        /\ prev' = resp
        /\ reqAt' = clock
        /\ prevAt' = reqAt
        /\ wait' = step.wait
        /\ slept' = SleepOf(step)
        /\ didSleep' = (SleepOf(step) > 0)
        /\ prevSlept' = slept
        /\ clock' = clock + SleepOf(step)
        /\ onlyPlain' = (onlyPlain /\ (Is429(r) \/ Is5xx(r)) /\ ~r.retry_after.present)
        /\ first2xx' = IF Is2xx(r) /\ ~first2xx.net_ok THEN r ELSE first2xx
        /\ last_err' = step.err
        /\ retval' = step.value
        /\ fstate' = IF step.outcome = "return" THEN "returned"
                     ELSE IF step.outcome = "break" \/ attempt + 1 > MAX_RETRIES
                          THEN "raised"
                     ELSE "loop"
        /\ attempt' = IF step.outcome = "continue" THEN attempt + 1 ELSE attempt
    /\ UNCHANGED <<MAX_RETRIES, BACKOFF_BASE_SECONDS, runVars>>

---------------------------------------------------------------------------
(* The output tree and the record of a run.                                *)

PullF1 == "pull_f1.py"

ErgastLegacy == "pull_f1_ergast_legacy.py"

ErgastFirst == "pull_f1_ergast_legacy.pypull_f1_ergast_legacy.py"

\* OUT_DIR / name, or OUT_DIR / "race_results" / f"{id}.json" (id > 0).
Path(y, name, id) == [year |-> y, name |-> name, id |-> id]

Event(ev, path, value) == [ev |-> ev, path |-> path, value |-> value]

\* ensure_dir + path.write_text(json.dumps(payload)): the file holds the value.
write_json(fs, path, value) ==
    [p \in DOMAIN fs \cup {path} |-> IF p = path THEN value ELSE fs[p]]

NoFiles == [p \in {} |-> NoRaceTable]

Truthy(x) == x.some /\ x.v # 0

Range(f) == {f[i] : i \in DOMAIN f}

RECURSIVE sorted(_)
sorted(S) ==
    IF S = {} THEN <<>>
    ELSE LET m == CHOOSE x \in S : \A y \in S : x <= y
         IN  <<m>> \o sorted(S \ {m})

\* A main that goes on after a fetch that raised.
KeepFailedFetch(result, next) == next

\* An exception no caller catches ends the process; otherwise main goes on.
AfterFetch(result, next) == IF result.some THEN next ELSE "exited"

Exit(code) == pc' = "exited" /\ exit_code' = code

---------------------------------------------------------------------------
(* pull_f1.py                                                              *)

YEAR == 2012

\* jobs of main: (get_name, output file); params are {"season": YEAR} or {}.
jobs ==
    << [get |-> "seasons", name |-> "seasons.json"],
       [get |-> "races", name |-> "races.json"],
       [get |-> "rankings/drivers", name |-> "standings_drivers.json"],
       [get |-> "rankings/teams", name |-> "standings_teams.json"],
       [get |-> "circuits", name |-> "circuits.json"],
       [get |-> "teams", name |-> "teams.json"] >>

\* The bodies the API may answer a route with.
ApiBodies(get) ==
    CASE get = "races" ->
            {A_Races212, A_RacesOdd, A_NonDictRace, A_Message, A_Empty, A_Error}
      [] get = "rankings/drivers" ->
            {A_Rankings212, A_RankingsOdd, A_Message, A_Empty, A_Error}
      [] get = "drivers" -> {A_Driver1, A_Driver2, A_DriverError}
      [] OTHER -> {A_Empty, A_Error}

ApiResponses(get) ==
    {Response(TRUE, 200, NoHeader, b) : b \in ApiBodies(get)}
    \cup {Response(TRUE, 200, NoHeader, "<html>Bad Gateway</html>"),
          Response(TRUE, 404, NoHeader, A_Error),
          NetworkError}

\* fetch_json of pull_f1.py: the payload, or NoPayload when it raises.
pull_f1_fetch_json(r) ==
    IF ~r.net_ok THEN NoPayload
    ELSE IF ~json(r.body).ok THEN NoPayload
    ELSE IF r.status_code >= 400 THEN NoPayload
    ELSE Returned(json(r.body).value)

NoError == [some |-> FALSE, key |-> "", msg |-> ""]

\* A first_error that reports nothing.
first_error_never(p) == NoError

first_error(p) ==
    IF p.errors.dict /\ Len(p.errors.items) > 0
    THEN [some |-> TRUE, key |-> p.errors.items[1].key, msg |-> p.errors.items[1].msg]
    ELSE NoError

\* rankings_payload.get("response") or []: iterating a mapping yields its keys.
RowsOf(p) == IF p.response.list THEN p.response.rows ELSE <<>>

fetch_driver_ids_from_rankings(p) ==
    sorted({RowsOf(p)[i].driver.id.v : i \in
        {n \in DOMAIN RowsOf(p) :
            /\ RowsOf(p)[n].dict
            /\ RowsOf(p)[n].driver.dict
            /\ Truthy(RowsOf(p)[n].driver.id)}})

\* race.get("id") or race.get("race") or race.get("race_id")
race_id_of(race) ==
    IF Truthy(race.id) THEN race.id
    ELSE IF Truthy(race.race) THEN race.race
    ELSE race.race_id

\* `out` of fetch_drivers_by_ids before its loop.
DriversOut(driver_ids) ==
    [get |-> "drivers",
     parameters |-> [ids |-> driver_ids, season_source |-> YEAR],
     errors |-> [dict |-> TRUE, items |-> <<>>],
     results |-> 0,
     response |-> <<>>]

\* The drivers.json main writes when no driver id was found.
DriversStub ==
    [get |-> "drivers",
     parameters |-> [empty |-> TRUE],
     errors |-> ErrorMap("ids", "No ids found from rankings/drivers"),
     results |-> 0,
     response |-> <<>>]

\* rankings_payload = {} of line 185.
EmptyMapping == ApiPayload("", NoErrors, List(<<>>))

\* Lines 10-38: the configuration read at import, and its two fatal checks.
pull_f1_import ==
    /\ env.script = PullF1 /\ pc = "import"
    /\ IF ~env.APISPORTS_KEY /\ ~env.RAPIDAPI_KEY THEN Exit(1)
       ELSE IF env.RAPIDAPI_KEY /\ ~env.RAPIDAPI_HOST THEN Exit(1)
       ELSE pc' = "core_fetch" /\ exit_code' = exit_code
    /\ UNCHANGED fetchVars
    /\ UNCHANGED <<env, files, payload, job, year, races, ids, k, out, phase,
                   filesBefore, log>>

\* Line 174: the fetch of the core job `job`.
pull_f1_core_fetch ==
    /\ env.script = PullF1 /\ pc = "core_fetch"
    /\ \E r \in ApiResponses(jobs[job].get) :
        LET result == pull_f1_fetch_json(r)
            path == Path(YEAR, jobs[job].name, 0)
        IN  /\ payload' = result
            /\ filesBefore' = files
            /\ log' = Append(log, Event(IF result.some THEN "fetch_ok" ELSE "fetch_fail",
                                        path, result))
            /\ pc' = AfterFetch(result, "core_write")
            /\ exit_code' = IF AfterFetch(result, "core_write") = "exited" THEN 1
                            ELSE exit_code
    /\ UNCHANGED fetchVars
    /\ UNCHANGED <<env, files, job, year, races, ids, k, out, phase>>

\* Lines 175-178: classify, warn, write; then the next job.
pull_f1_core_write ==
    /\ env.script = PullF1 /\ pc = "core_write"
    /\ LET path == Path(YEAR, jobs[job].name, 0)
           warn == IF payload.some /\ first_error(payload.v).some
                   THEN <<Event("warn", path, payload)>> ELSE <<>>
       IN  /\ files' = write_json(files, path, payload.v)
           /\ log' = log \o warn \o <<Event("write", path, payload)>>
    /\ IF job < Len(jobs)
       THEN job' = job + 1 /\ pc' = "core_fetch"
       ELSE job' = job /\ pc' = "drivers"
    /\ UNCHANGED fetchVars
    /\ UNCHANGED <<env, exit_code, payload, year, races, ids, k, out, phase, filesBefore>>

\* Lines 181-203: read standings_drivers.json back ({} when that fails), derive
\* the driver ids, and write the stub when there are none.
pull_f1_driver_ids ==
    /\ env.script = PullF1 /\ pc = "drivers"
    /\ \E readable \in BOOLEAN :
       LET rankings_payload == IF readable
                               THEN files[Path(YEAR, "standings_drivers.json", 0)]
                               ELSE EmptyMapping
           driver_ids == fetch_driver_ids_from_rankings(rankings_payload)
           path == Path(YEAR, "drivers.json", 0)
       IN  IF driver_ids = <<>>
           THEN /\ files' = write_json(files, path, DriversStub)
                /\ log' = log \o <<Event("warn", path, NoPayload),
                                   Event("write", path, NoPayload)>>
                /\ pc' = "race_results"
                /\ UNCHANGED <<ids, k, out>>
           ELSE /\ ids' = driver_ids
                /\ k' = 1
                /\ out' = DriversOut(driver_ids)
                /\ pc' = "driver_fetch"
                /\ UNCHANGED <<files, log>>
    /\ UNCHANGED fetchVars
    /\ UNCHANGED <<env, exit_code, payload, job, year, races, phase, filesBefore>>

\* Lines 132-141: one iteration of the loop of fetch_drivers_by_ids.
pull_f1_driver_fetch ==
    /\ env.script = PullF1 /\ pc = "driver_fetch"
    /\ \E r \in ApiResponses("drivers") :
        LET result == pull_f1_fetch_json(r)
            path == Path(YEAR, "drivers.json", ids[k])
            next == IF k < Len(ids) THEN "driver_fetch" ELSE "drivers_write"
            err == IF result.some THEN first_error(result.v) ELSE NoError
            resp_rows == IF result.some THEN RowsOf(result.v) ELSE <<>>
        IN  /\ payload' = result
            /\ filesBefore' = files
            /\ log' = log
                      \o <<Event(IF result.some THEN "fetch_ok" ELSE "fetch_fail",
                                 path, result)>>
                      \o (IF err.some THEN <<Event("warn", path, result)>> ELSE <<>>)
            /\ pc' = AfterFetch(result, next)
            /\ exit_code' = IF AfterFetch(result, next) = "exited" THEN 1 ELSE exit_code
            /\ out' = IF result.some /\ ~err.some
                      THEN [out EXCEPT !.response = @ \o resp_rows]
                      ELSE out
            /\ k' = IF result.some /\ k < Len(ids) THEN k + 1 ELSE k
    /\ UNCHANGED fetchVars
    /\ UNCHANGED <<env, files, job, year, races, ids, phase>>

\* Lines 143-144 and 203: out["results"], then drivers.json.
pull_f1_drivers_write ==
    /\ env.script = PullF1 /\ pc = "drivers_write"
    /\ LET path == Path(YEAR, "drivers.json", 0)
           drivers_payload == [out EXCEPT !.results = Len(out.response)]
       IN  /\ out' = drivers_payload
           /\ files' = write_json(files, path, drivers_payload)
           /\ log' = Append(log, Event("write", path, NoPayload))
    /\ pc' = "race_results"
    /\ UNCHANGED fetchVars
    /\ UNCHANGED <<env, exit_code, payload, job, year, races, ids, k, phase, filesBefore>>

\* Lines 206-219: the optional phase; main returns (exit status 0) when
\* races.json cannot be read back or its response is not a list.
pull_f1_race_results ==
    /\ env.script = PullF1 /\ pc = "race_results"
    /\ IF ~env.ENABLE_RACE_RESULTS
       THEN Exit(0) /\ UNCHANGED <<races, k, phase>>
       ELSE \E readable \in BOOLEAN :
            LET races_payload == files[Path(YEAR, "races.json", 0)] IN
            IF ~readable \/ ~races_payload.response.list
            THEN Exit(0) /\ phase' = "skipped" /\ UNCHANGED <<races, k>>
            ELSE /\ races' = races_payload.response.rows
                 /\ k' = 1
                 /\ phase' = "ran"
                 /\ IF races_payload.response.rows = <<>>
                    THEN Exit(0)
                    ELSE pc' = "race_loop" /\ exit_code' = exit_code
    /\ UNCHANGED fetchVars
    /\ UNCHANGED <<env, files, payload, job, year, ids, out, filesBefore, log>>

\* A loop over races that stops after its first row.
AfterFirstRace(i, rows) == "exited"

\* The step after the row i of the loop of lines 221-226.
AfterRace(i, rows) == IF i < Len(rows) THEN "race_loop" ELSE "exited"

\* Lines 221-225: the row k of races: an AttributeError for a row that is no
\* mapping, skipped without an id, else the fetch of its results.
pull_f1_race_fetch ==
    /\ env.script = PullF1 /\ pc = "race_loop"
    /\ LET race == races[k] IN
       IF ~race.dict
       THEN /\ Exit(1)
            /\ UNCHANGED <<payload, k, filesBefore, log>>
       ELSE IF ~Truthy(race_id_of(race))
       THEN /\ pc' = AfterRace(k, races)
            /\ exit_code' = IF AfterRace(k, races) = "exited" THEN 0 ELSE exit_code
            /\ k' = IF k < Len(races) THEN k + 1 ELSE k
            /\ UNCHANGED <<payload, filesBefore, log>>
       ELSE \E r \in ApiResponses("races/results") :
            LET result == pull_f1_fetch_json(r)
                path == Path(YEAR, "race_results", race_id_of(race).v)
            IN  /\ payload' = result
                /\ filesBefore' = files
                /\ log' = Append(log,
                        Event(IF result.some THEN "fetch_ok" ELSE "fetch_fail",
                              path, result))
                /\ pc' = AfterFetch(result, "race_write")
                /\ exit_code' = IF AfterFetch(result, "race_write") = "exited" THEN 1
                                ELSE exit_code
                /\ k' = k
    /\ UNCHANGED fetchVars
    /\ UNCHANGED <<env, files, job, year, races, ids, out, phase>>

\* Line 226: write_json(rr_dir / f"{race_id}.json", payload); main ends (exit
\* status 0) after the last row.
pull_f1_race_write ==
    /\ env.script = PullF1 /\ pc = "race_write"
    /\ LET path == Path(YEAR, "race_results", race_id_of(races[k]).v) IN
       /\ files' = write_json(files, path, payload.v)
       /\ log' = Append(log, Event("write", path, payload))
    /\ pc' = AfterRace(k, races)
    /\ exit_code' = IF AfterRace(k, races) = "exited" THEN 0 ELSE exit_code
    /\ k' = IF k < Len(races) THEN k + 1 ELSE k
    /\ UNCHANGED fetchVars
    /\ UNCHANGED <<env, payload, job, year, races, ids, out, phase, filesBefore>>

---------------------------------------------------------------------------
(* pull_f1_ergast_legacy.py and the first Ergast pull                      *)

IntTexts == {"1", "2"}

\* int(rd) for the round texts of this model; int("x") raises.
int(text) == CASE text = "1" -> 1 [] text = "2" -> 2

\* rounds_from_races_payload: [] when MRData.RaceTable.Races is missing or a
\* row is no mapping (the outer except); rows without a round, or with a round
\* int() refuses, are passed over.
rounds_from_races_payload(p) ==
    IF ~p.MRData.has_races THEN <<>>
    ELSE IF \E i \in DOMAIN p.MRData.Races : ~p.MRData.Races[i].dict THEN <<>>
    ELSE sorted({int(p.MRData.Races[i].round.text) : i \in
            {n \in DOMAIN p.MRData.Races :
                /\ p.MRData.Races[n].round.some
                /\ p.MRData.Races[n].round.text \in IntTexts}})

\* fetch_json of pull_f1_ergast_legacy.py as one call, from loop index att on,
\* fed the responses rs: the payload, or NoPayload when it raises.
RECURSIVE legacy_fetch_json(_, _)
legacy_fetch_json(rs, att) ==
    IF att > MAX_RETRIES THEN NoPayload
    ELSE LET step == Iteration(rs[att + 1], att) IN
         IF step.outcome = "return" THEN step.value
         ELSE IF step.outcome = "break" THEN NoPayload
         ELSE legacy_fetch_json(rs, att + 1)

\* fetch_json of the first Ergast pull: raise_for_status, then r.json().
first_fetch_json(r) ==
    IF ~r.net_ok THEN NoPayload
    ELSE IF r.status_code >= 400 /\ r.status_code < 600 THEN NoPayload
    ELSE IF ~json(r.body).ok THEN NoPayload
    ELSE Returned(json(r.body).value)

ergast_fetch_json(rs) ==
    IF env.script = ErgastLegacy THEN legacy_fetch_json(rs, 0)
    ELSE first_fetch_json(rs[1])

\* The files main fetches for each year before the per-round results.
YearJobs ==
    <<"races.json", "standings_drivers.json", "standings_teams.json">>
    \o (IF env.script = ErgastLegacy /\ env.DOWNLOAD_YEAR_RESULTS
        THEN <<"results.json">> ELSE <<>>)

PerRound ==
    IF env.script = ErgastLegacy THEN env.DOWNLOAD_RESULTS_PER_ROUND
    ELSE env.DOWNLOAD_RESULTS

ErgastBodies(name) ==
    IF name = "races.json"
    THEN {E_Round1, E_Rounds212, E_RoundsOdd, E_NonDictRace, E_Standings}
    ELSE {E_Standings}

ErgastResponses(name) ==
    {Response(TRUE, 200, NoHeader, b) : b \in ErgastBodies(name)}
    \cup {Response(TRUE, 200, NoHeader, "<html>Bad Gateway</html>"),
          Response(TRUE, 404, NoHeader, "Not Found"),
          Response(TRUE, 503, NoHeader, "busy"),
          NetworkError}

\* The responses one fetch_json call may be given: one per allowed request.
Answers(name) ==
    [1..(IF env.script = ErgastLegacy THEN MAX_RETRIES + 1 ELSE 1)
        -> ErgastResponses(name)]

\* The end of the body of `for year in range(START_YEAR, END_YEAR + 1)`.
NextYear ==
    IF year < env.END_YEAR
    THEN year' = year + 1 /\ job' = 1 /\ pc' = "year_fetch" /\ exit_code' = exit_code
    ELSE year' = year /\ job' = job /\ Exit(0)

\* main up to its loop: START_YEAR > END_YEAR is fatal.
ergast_main ==
    /\ env.script \in {ErgastLegacy, ErgastFirst} /\ pc = "import"
    /\ IF env.START_YEAR > env.END_YEAR
       THEN Exit(1) /\ UNCHANGED <<year, job>>
       ELSE year' = env.START_YEAR /\ job' = 1 /\ pc' = "year_fetch"
            /\ exit_code' = exit_code
    /\ UNCHANGED fetchVars
    /\ UNCHANGED <<env, files, payload, races, ids, k, out, phase, filesBefore, log>>

\* The fetch_json call of the year's file `job`.
ergast_fetch ==
    /\ env.script \in {ErgastLegacy, ErgastFirst} /\ pc = "year_fetch"
    /\ \E rs \in Answers(YearJobs[job]) :
        LET result == ergast_fetch_json(rs)
            path == Path(year, YearJobs[job], 0)
        IN  /\ payload' = result
            /\ races' = IF job = 1 /\ result.some THEN result.v ELSE races
            /\ filesBefore' = files
            /\ log' = Append(log, Event(IF result.some THEN "fetch_ok" ELSE "fetch_fail",
                                        path, result))
            /\ pc' = AfterFetch(result, "year_write")
            /\ exit_code' = IF AfterFetch(result, "year_write") = "exited" THEN 1
                            ELSE exit_code
    /\ UNCHANGED fetchVars
    /\ UNCHANGED <<env, files, job, year, ids, k, out, phase>>

\* write_json and safe_sleep of the year's file `job`; after the last of them
\* the per-round phase, or the next year.
ergast_write ==
    /\ env.script \in {ErgastLegacy, ErgastFirst} /\ pc = "year_write"
    /\ LET path == Path(year, YearJobs[job], 0) IN
       /\ files' = write_json(files, path, payload.v)
       /\ log' = Append(log, Event("write", path, payload))
    /\ IF job < Len(YearJobs)
       THEN job' = job + 1 /\ pc' = "year_fetch" /\ UNCHANGED <<year, exit_code>>
       ELSE IF PerRound
       THEN pc' = "rounds" /\ UNCHANGED <<year, job, exit_code>>
       ELSE NextYear
    /\ UNCHANGED fetchVars
    /\ UNCHANGED <<env, payload, races, ids, k, out, phase, filesBefore>>

\* rounds = rounds_from_races_payload(races) and ensure_dir(rr_dir).
ergast_rounds ==
    /\ env.script \in {ErgastLegacy, ErgastFirst} /\ pc = "rounds"
    /\ ids' = rounds_from_races_payload(races)
    /\ k' = 1
    /\ IF rounds_from_races_payload(races) = <<>>
       THEN NextYear
       ELSE pc' = "round_fetch" /\ UNCHANGED <<year, job, exit_code>>
    /\ UNCHANGED fetchVars
    /\ UNCHANGED <<env, files, payload, races, out, phase, filesBefore, log>>

\* payload = fetch_json(res_url) for the round ids[k].
ergast_round_fetch ==
    /\ env.script \in {ErgastLegacy, ErgastFirst} /\ pc = "round_fetch"
    /\ \E rs \in Answers("race_results") :
        LET result == ergast_fetch_json(rs)
            path == Path(year, "race_results", ids[k])
        IN  /\ payload' = result
            /\ filesBefore' = files
            /\ log' = Append(log, Event(IF result.some THEN "fetch_ok" ELSE "fetch_fail",
                                        path, result))
            /\ pc' = AfterFetch(result, "round_write")
            /\ exit_code' = IF AfterFetch(result, "round_write") = "exited" THEN 1
                            ELSE exit_code
    /\ UNCHANGED fetchVars
    /\ UNCHANGED <<env, files, job, year, races, ids, k, out, phase>>

\* write_json(rr_dir / f"{rd}.json", payload) and safe_sleep; then the next
\* round, or the next year.
ergast_round_write ==
    /\ env.script \in {ErgastLegacy, ErgastFirst} /\ pc = "round_write"
    /\ LET path == Path(year, "race_results", ids[k]) IN
       /\ files' = write_json(files, path, payload.v)
       /\ log' = Append(log, Event("write", path, payload))
    /\ IF k < Len(ids)
       THEN k' = k + 1 /\ pc' = "round_fetch" /\ UNCHANGED <<year, job, exit_code>>
       ELSE k' = k /\ NextYear
    /\ UNCHANGED fetchVars
    /\ UNCHANGED <<env, payload, races, ids, out, phase, filesBefore>>

---------------------------------------------------------------------------
(* The specifications.                                                     *)

Env(script, key, rapid, host, rr, start, end, yr, pr, dr) ==
    [script |-> script, APISPORTS_KEY |-> key, RAPIDAPI_KEY |-> rapid,
     RAPIDAPI_HOST |-> host, ENABLE_RACE_RESULTS |-> rr,
     START_YEAR |-> start, END_YEAR |-> end,
     DOWNLOAD_YEAR_RESULTS |-> yr, DOWNLOAD_RESULTS_PER_ROUND |-> pr,
     DOWNLOAD_RESULTS |-> dr]

NoEnv == Env("", FALSE, FALSE, FALSE, FALSE, 0, 0, FALSE, FALSE, FALSE)

\* Whether APISPORTS_KEY, RAPIDAPI_KEY, RAPIDAPI_HOST are set.
Credentials ==
    {<<TRUE, FALSE, FALSE>>, <<FALSE, TRUE, TRUE>>, <<FALSE, TRUE, FALSE>>,
     <<FALSE, FALSE, FALSE>>}

\* ERGAST_START_YEAR and ERGAST_END_YEAR.
YearRanges == {<<1950, 1950>>, <<1950, 1951>>, <<1951, 1950>>}

Envs ==
    {Env(PullF1, c[1], c[2], c[3], rr, 0, 0, FALSE, FALSE, FALSE) :
        c \in Credentials, rr \in BOOLEAN}
    \cup {Env(ErgastLegacy, FALSE, FALSE, FALSE, FALSE, y[1], y[2], yr, pr, FALSE) :
        y \in YearRanges, yr \in BOOLEAN, pr \in BOOLEAN}
    \cup {Env(ErgastFirst, FALSE, FALSE, FALSE, FALSE, y[1], y[2], FALSE, FALSE, dr) :
        y \in YearRanges, dr \in BOOLEAN}

IdleFetch ==
    /\ attempt = 0
    /\ fstate = "loop"
    /\ requests = 0
    /\ resp = NoResponse
    /\ prev = NoResponse
    /\ wait = None
    /\ didSleep = FALSE
    /\ slept = 0
    /\ prevSlept = 0
    /\ onlyPlain = TRUE
    /\ clock = 0
    /\ reqAt = 0
    /\ prevAt = 0
    /\ retval = NoPayload
    /\ first2xx = NoResponse
    /\ last_err = ""

IdleRun ==
    /\ pc = "import"
    /\ exit_code = 0
    /\ files = NoFiles
    /\ payload = NoPayload
    /\ job = 1
    /\ year = 0
    /\ races = <<>>
    /\ ids = <<>>
    /\ k = 1
    /\ out = DriversOut(<<>>)
    /\ phase = ""
    /\ filesBefore = NoFiles
    /\ log = <<>>

\* One call of the retrying fetch_json, for every configured retry count and
\* backoff base.
InitFetch ==
    /\ MAX_RETRIES \in RetryChoices
    /\ BACKOFF_BASE_SECONDS \in BackoffChoices
    /\ IdleFetch
    /\ env = NoEnv
    /\ IdleRun

NextFetch == fetch_json_iteration

SpecFetch == InitFetch /\ [][NextFetch]_vars

\* One run of one of the three scripts, from import to exit.
InitRun ==
    /\ env \in Envs
    /\ MAX_RETRIES \in (IF env.script = ErgastLegacy THEN {0, 1} ELSE {0})
    /\ BACKOFF_BASE_SECONDS = 1
    /\ IdleFetch
    /\ IdleRun

NextRun ==
    \/ pull_f1_import
    \/ pull_f1_core_fetch
    \/ pull_f1_core_write
    \/ pull_f1_driver_ids
    \/ pull_f1_driver_fetch
    \/ pull_f1_drivers_write
    \/ pull_f1_race_results
    \/ pull_f1_race_fetch
    \/ pull_f1_race_write
    \/ ergast_main
    \/ ergast_fetch
    \/ ergast_write
    \/ ergast_rounds
    \/ ergast_round_fetch
    \/ ergast_round_write

SpecRun == InitRun /\ [][NextRun]_vars

---------------------------------------------------------------------------
(* Properties of one fetch_json call (SpecFetch).                          *)

\* The loop index of the iteration that handled resp.
handledAt == requests - 1

IsOtherClientError(r) ==
    r.net_ok /\ ~Is2xx(r) /\ ~Is5xx(r) /\ r.status_code # 429

HasNumericRetryAfter(r) ==
    r.retry_after.present /\ r.retry_after.text \in FloatTexts

\* C1: a 4xx response other than 429 (404) makes the call raise at once,
\* without a sleep and without a further request.
C1_ClientErrorFailsFast ==
    IsOtherClientError(resp) => (fstate = "raised" /\ ~didSleep /\ slept = 0)

\* C2: after a 429 with a numeric Retry-After s, the next request of the call
\* is issued at least s time units later; 429 with Retry-After 2 and then a
\* 200 returns the 200's payload after a total wait of at least 2.
C2_RetryAfterHonoured ==
    /\ (Is429(resp) /\ HasNumericRetryAfter(resp))
          => clock - reqAt >= float(resp.retry_after.text)
    /\ (requests >= 2 /\ Is429(prev) /\ HasNumericRetryAfter(prev))
          => reqAt - prevAt >= float(prev.retry_after.text)
    /\ (/\ requests = 2
        /\ prev = Response(TRUE, 429, Header("2"), "busy")
        /\ Is2xx(resp) /\ json(resp.body).ok)
          => (/\ fstate = "returned"
              /\ retval = Returned(json(resp.body).value)
              /\ clock >= 2)

C2_Witness ==
    /\ requests = 2
    /\ MAX_RETRIES >= 1
    /\ prev = Response(TRUE, 429, Header("2"), "busy")
    /\ Is2xx(resp)
    /\ fstate = "returned"
    /\ clock = 2

\* C3: a call issues at most MAX_RETRIES + 1 requests, a call that returns
\* returns the parsed body of the first 2xx response it received, and a call
\* whose every allowed attempt ended in a 429, a 5xx or a network error has
\* raised.
C3_BoundedAndFirst2xx ==
    /\ requests <= MAX_RETRIES + 1
    /\ fstate = "returned"
          => (/\ json(first2xx.body).ok
              /\ first2xx = resp
              /\ retval = Returned(json(first2xx.body).value))
    /\ (requests = MAX_RETRIES + 1 /\ ~Is2xx(resp)) => fstate = "raised"

\* C4: a 2xx response whose body is not JSON makes the call raise at once,
\* without a sleep and without a further request.
C4_ParseFailureIsPermanent ==
    (Is2xx(resp) /\ ~json(resp.body).ok)
        => (fstate = "raised" /\ ~didSleep /\ slept = 0)

\* C5: the wait chosen after a 5xx response is the wait the 429 policy gives
\* for the same header and attempt: Retry-After when present, else
\* BACKOFF_BASE_SECONDS * 2^attempt.
C5_ServerErrorSamePolicy ==
    Is5xx(resp) => wait = Some(RateLimitWait(resp, handledAt))

\* C6 as claimed: with only 429/5xx responses without Retry-After, for every
\* BACKOFF_BASE_SECONDS the wait before a retry exceeds the wait before the
\* retry preceding it.
C6_WaitsIncreaseForEveryBase ==
    (onlyPlain /\ requests >= 2 /\ fstate = "loop") => slept > prevSlept

\* C6 as amended: for BACKOFF_BASE_SECONDS > 0 the wait after attempt k is
\* BACKOFF_BASE_SECONDS * 2^k and exceeds the wait before it; for
\* BACKOFF_BASE_SECONDS <= 0 the call never sleeps.
C6_WaitsIncreaseForPositiveBase ==
    (onlyPlain /\ requests >= 1) =>
        /\ wait = Some(BACKOFF_BASE_SECONDS * Pow2(handledAt))
        /\ BACKOFF_BASE_SECONDS > 0 =>
              (/\ slept = BACKOFF_BASE_SECONDS * Pow2(handledAt)
               /\ requests >= 2 => slept > prevSlept)
        /\ BACKOFF_BASE_SECONDS <= 0 => (slept = 0 /\ clock = 0)

C6_Witness ==
    /\ onlyPlain
    /\ BACKOFF_BASE_SECONDS > 0
    /\ requests >= 3
    /\ fstate = "loop"
    /\ slept = 2 * prevSlept

---------------------------------------------------------------------------
(* Properties of one run (SpecRun).                                        *)

Done0 == pc = "exited" /\ exit_code = 0

\* A non-empty `errors` mapping.
HasErrors(v) == v.errors.dict /\ Len(v.errors.items) > 0

IsFetchOk(e) == e.ev = "fetch_ok"

IsFetch(e) == e.ev \in {"fetch_ok", "fetch_fail"}

\* The fetches of pull_f1.py's core jobs and of its drivers?id= loop.
IsCoreFetch(e) == IsFetch(e) /\ e.path.id = 0

IsDriverFetch(e) == IsFetch(e) /\ e.path.name = "drivers.json" /\ e.path.id > 0

DriversJson == Path(YEAR, "drivers.json", 0)

\* The rows the per-driver payloads without errors carry, in fetch order.
RECURSIVE MergedRows(_)
MergedRows(events) ==
    IF events = <<>> THEN <<>>
    ELSE LET e == Head(events) IN
         (IF IsDriverFetch(e) /\ IsFetchOk(e) /\ ~HasErrors(e.value.v)
          THEN RowsOf(e.value.v) ELSE <<>>) \o MergedRows(Tail(events))

\* The path was fetched with success and then written.
FetchedAndWritten(path) ==
    /\ path \in DOMAIN files
    /\ \E i \in DOMAIN log : \E j \in DOMAIN log :
        /\ i < j
        /\ IsFetchOk(log[i]) /\ log[i].path = path
        /\ log[j].ev = "write" /\ log[j].path = path

\* The identifiers the fan-out into `name` issued a fetch for, in order.
FannedOut(y, name) ==
    LET at == SelectSeq(log, LAMBDA e : IsFetch(e) /\ e.path.year = y
                                        /\ e.path.name = name /\ e.path.id > 0)
    IN  [i \in DOMAIN at |-> at[i].path.id]

\* C7 as claimed: at the end of a run of pull_f1.py that exits 0, every payload
\* with a non-empty errors mapping a core job or a per-driver fetch returned
\* was reported by first_error and is on disk unchanged.
C7_EveryErrorPayloadPersisted ==
    (env.script = PullF1 /\ Done0) =>
        \A i \in DOMAIN log :
            (IsFetchOk(log[i]) /\ (IsCoreFetch(log[i]) \/ IsDriverFetch(log[i]))
                /\ HasErrors(log[i].value.v))
            => /\ log[i + 1].ev = "warn"
               /\ \E p \in DOMAIN files : files[p] = log[i].value.v

\* C7 as amended: a payload with a non-empty errors mapping is reported and
\* never ends the run; a core job's is written unchanged to the job's file; a
\* per-driver one is written nowhere, and drivers.json holds the rows of the
\* per-driver payloads without errors only.
C7_ErrorPayloadsNonFatal ==
    env.script = PullF1 =>
        /\ \A i \in DOMAIN log :
            (IsFetchOk(log[i]) /\ HasErrors(log[i].value.v) /\ IsCoreFetch(log[i]))
            => IF i = Len(log) THEN pc = "core_write"
               ELSE /\ log[i + 1] = Event("warn", log[i].path, log[i].value)
                    /\ log[i + 2] = Event("write", log[i].path, log[i].value)
                    /\ files[log[i].path] = log[i].value.v
        /\ \A i \in DOMAIN log :
            (IsFetchOk(log[i]) /\ HasErrors(log[i].value.v) /\ IsDriverFetch(log[i]))
            => /\ i < Len(log)
               /\ log[i + 1] = Event("warn", log[i].path, log[i].value)
               /\ i + 1 = Len(log) => pc \in {"driver_fetch", "drivers_write"}
               /\ \A p \in DOMAIN files : files[p] # log[i].value.v
        /\ (DriversJson \in DOMAIN files /\ files[DriversJson] # DriversStub)
            => /\ files[DriversJson].response = MergedRows(log)
               /\ files[DriversJson].results = Len(MergedRows(log))

C7_Witness ==
    /\ env.script = PullF1 /\ Done0
    /\ \E i \in DOMAIN log :
        IsFetchOk(log[i]) /\ IsCoreFetch(log[i]) /\ HasErrors(log[i].value.v)
    /\ \E i \in DOMAIN log :
        IsFetchOk(log[i]) /\ IsDriverFetch(log[i]) /\ HasErrors(log[i].value.v)
    /\ files[DriversJson].results = 1

\* The ids of the rows of a listing that are mappings carrying an id.
RaceIds(rows) ==
    {race_id_of(rows[i]).v : i \in
        {n \in DOMAIN rows : rows[n].dict /\ Truthy(race_id_of(rows[n]))}}

DriverIds(rows) ==
    {rows[i].driver.id.v : i \in
        {n \in DOMAIN rows :
            rows[n].dict /\ rows[n].driver.dict /\ Truthy(rows[n].driver.id)}}

RoundIds(rows) ==
    {int(rows[i].round.text) : i \in
        {n \in DOMAIN rows :
            rows[n].dict /\ rows[n].round.some /\ rows[n].round.text \in IntTexts}}

RacesJson(y) == Path(y, "races.json", 0)

\* C8: at the end of a run that exits 0, each fan-out that ran issued its
\* fetches for the ascending, duplicate-free sequence of the ids of the
\* well-formed rows of its listing: the per-round fan-out of the Ergast pulls,
\* the per-driver and the race_results fan-outs of pull_f1.py.
C8_FanOutSortedDistinct ==
    Done0 =>
        /\ (env.script # PullF1 /\ PerRound) =>
            \A y \in env.START_YEAR..env.END_YEAR :
                files[RacesJson(y)].MRData.has_races =>
                    FannedOut(y, "race_results")
                        = sorted(RoundIds(files[RacesJson(y)].MRData.Races))
        /\ (env.script = PullF1 /\ DriversJson \in DOMAIN files
                /\ files[DriversJson] # DriversStub) =>
            FannedOut(YEAR, "drivers.json")
                = sorted(DriverIds(RowsOf(files[Path(YEAR, "standings_drivers.json", 0)])))
        /\ (env.script = PullF1 /\ phase = "ran") =>
            FannedOut(YEAR, "race_results")
                = sorted(RaceIds(files[RacesJson(YEAR)].response.rows))

\* C9 as claimed: a run that exits 0 has fetched and written every configured
\* job: every core resource, drivers.json, and, with the fan-out toggle on,
\* every fan-out fetch.
C9_ExitZeroMeansAllJobsDone ==
    Done0 =>
        /\ env.script = PullF1 =>
            /\ \A n \in DOMAIN jobs : FetchedAndWritten(Path(YEAR, jobs[n].name, 0))
            /\ DriversJson \in DOMAIN files
            /\ env.ENABLE_RACE_RESULTS =>
                /\ phase = "ran"
                /\ \A id \in RaceIds(races) :
                    FetchedAndWritten(Path(YEAR, "race_results", id))
        /\ env.script # PullF1 =>
            \A y \in env.START_YEAR..env.END_YEAR :
                /\ \A n \in DOMAIN YearJobs : FetchedAndWritten(Path(y, YearJobs[n], 0))
                /\ PerRound =>
                    \A rd \in Range(rounds_from_races_payload(files[RacesJson(y)])) :
                        FetchedAndWritten(Path(y, "race_results", rd))

\* C9 as amended: a run ends with exit status 0 or 1, and a run that is not
\* over can take a step.  A run that exits 0 has fetched and written every
\* configured job, except that pull_f1.py with ENABLE_RACE_RESULTS exits 0
\* without its race_results fan-out when races.json cannot be read back or its
\* response is not a list.
C9_ExitZeroMeansJobsDoneOrPhaseSkipped ==
    /\ pc = "exited" => exit_code \in {0, 1}
    /\ pc # "exited" => ENABLED NextRun
    /\ Done0 =>
        /\ env.script = PullF1 =>
            /\ \A n \in DOMAIN jobs : FetchedAndWritten(Path(YEAR, jobs[n].name, 0))
            /\ DriversJson \in DOMAIN files
            /\ files[DriversJson] # DriversStub =>
                \A i \in DOMAIN ids : \E n \in DOMAIN log :
                    IsFetchOk(log[n]) /\ log[n].path = Path(YEAR, "drivers.json", ids[i])
            /\ env.ENABLE_RACE_RESULTS =>
                /\ phase \in {"ran", "skipped"}
                /\ phase = "ran" =>
                    /\ races = files[RacesJson(YEAR)].response.rows
                    /\ \A id \in RaceIds(races) :
                        FetchedAndWritten(Path(YEAR, "race_results", id))
        /\ env.script # PullF1 =>
            /\ env.START_YEAR <= env.END_YEAR
            /\ \A y \in env.START_YEAR..env.END_YEAR :
                /\ \A n \in DOMAIN YearJobs : FetchedAndWritten(Path(y, YearJobs[n], 0))
                /\ PerRound =>
                    \A rd \in Range(rounds_from_races_payload(files[RacesJson(y)])) :
                        FetchedAndWritten(Path(y, "race_results", rd))

C9_Witness ==
    /\ Done0
    /\ env.script = PullF1
    /\ phase = "ran"
    /\ Path(YEAR, "race_results", 1) \in DOMAIN files
    /\ Path(YEAR, "race_results", 2) \in DOMAIN files

\* The write log[i] comes after a successful fetch of the same file, with no
\* other fetch in between, and writes what that fetch returned.
WriteFollowsItsFetch(i) ==
    \E j \in 1..(i - 1) :
        /\ log[j] = Event("fetch_ok", log[i].path, log[i].value)
        /\ \A m \in (j + 1)..(i - 1) : ~IsFetch(log[m])

\* A failed fetch is the last thing a run does: it exits non-zero with the
\* output tree as it was when the fetch was issued.
FailedFetchEndsRun ==
    \A i \in DOMAIN log :
        log[i].ev = "fetch_fail" =>
            /\ i = Len(log)
            /\ pc = "exited" /\ exit_code # 0
            /\ files = filesBefore
            /\ \A m \in DOMAIN log : log[m].ev = "write" => log[m].path \in DOMAIN filesBefore

\* C10 as claimed: every file is written only after the fetch for that file
\* returned; a failed fetch writes nothing, ends the run, and leaves the
\* files written before it unchanged.
C10_WriteOnlyAfterFetch ==
    /\ \A i \in DOMAIN log :
        log[i].ev = "write" =>
            \E j \in 1..(i - 1) :
                /\ IsFetchOk(log[j])
                /\ log[j].path.year = log[i].path.year
                /\ log[j].path.name = log[i].path.name
    /\ FailedFetchEndsRun

\* C10 as amended: the same, except for drivers.json of pull_f1.py, which is
\* written without any drivers fetch (as an error stub) when no driver id was
\* found, and else after every per-driver fetch returned.
C10_WriteOnlyAfterFetchOrStub ==
    /\ \A i \in DOMAIN log :
        (log[i].ev = "write" /\ log[i].path # DriversJson) => WriteFollowsItsFetch(i)
    /\ \A i \in DOMAIN log :
        (log[i].ev = "write" /\ log[i].path = DriversJson) =>
            \/ files[DriversJson] = DriversStub /\ FannedOut(YEAR, "drivers.json") = <<>>
            \/ /\ FannedOut(YEAR, "drivers.json") = ids
               /\ \A j \in 1..(i - 1) : IsDriverFetch(log[j]) => IsFetchOk(log[j])
    /\ DOMAIN files = {log[i].path : i \in {n \in DOMAIN log : log[n].ev = "write"}}
    /\ FailedFetchEndsRun

C10_Witness ==
    /\ pc = "exited" /\ exit_code = 1
    /\ log # <<>>
    /\ log[Len(log)].ev = "fetch_fail"
    /\ Cardinality(DOMAIN files) >= 3
    /\ files = filesBefore

============================================================================
